---- MODULE Spec2Model ----
(***************************************************************************)
(* Model of abc-tune-analyzer (src/abc_parser_app.py).                     *)
(*                                                                         *)
(* Text is modelled as sequences of one-character strings, so that         *)
(* str.strip, str.startswith and str.split are computed, not assumed.      *)
(* A Python dict is a function whose domain is the set of keys present.    *)
(*                                                                         *)
(* SpecParse : parse_abc_file run line by line over a bounded input.       *)
(* Spec      : main()'s store life cycle: connect, re-scan, insert, load,  *)
(*             and the menu options that query the loaded view.            *)
(* SpecStore : TuneDatabase and TuneAnalyzer called in any order on one    *)
(*             store.                                                      *)
(* SpecQuery : the filters of TuneAnalyzer applied to a bounded view.      *)
(***************************************************************************)
EXTENDS Integers, Sequences, FiniteSets, TLC

VARIABLES lines, book_id, line_no, tunes, current_tune, in_tune, parse_pc

parse_vars == <<lines, book_id, line_no, tunes, current_tune, in_tune, parse_pc>>

\* the files of this machine and the state of main()
VARIABLES abc_books, disk, inserted, pc, analyzer_conn, db_conn, df,
          to_visit, file_path, tunes_found, next_tune, total_tunes

\* what the run has printed about the files, and the last call with its outcome
VARIABLES printed, last_call

main_vars == <<abc_books, disk, inserted, pc, analyzer_conn, db_conn, df,
               to_visit, file_path, tunes_found, next_tune, total_tunes,
               printed, last_call>>

vars == <<parse_vars, main_vars>>

(***************************************************************************)
(* Bounds of the model                                                     *)
(***************************************************************************)
MaxLines == 3

MaxFiles == 2

MaxBooks == 3

MaxRows == 3

(***************************************************************************)
(* Characters and the str methods the parser uses                          *)
(***************************************************************************)
NL == "\n"

\* str.strip() removes whitespace; of the characters it removes the texts of
\* the model hold these
Whitespace == {" ", "\t", "\r", "\f"}

RECURSIVE lstrip(_)
lstrip(s) ==
    IF s # <<>> /\ Head(s) \in Whitespace THEN lstrip(Tail(s)) ELSE s

RECURSIVE rstrip(_)
rstrip(s) ==
    IF s # <<>> /\ s[Len(s)] \in Whitespace
    THEN rstrip(SubSeq(s, 1, Len(s) - 1))
    ELSE s

\* Mutant of strip: only the right end is stripped.
strip_trailing(s) == rstrip(s)

strip(s) == rstrip(lstrip(s))

startswith(s, prefix) ==
    /\ Len(s) >= Len(prefix)
    /\ SubSeq(s, 1, Len(prefix)) = prefix

\* s.split(sep) for a one-character separator: the list of the pieces of s
\* between consecutive separators (always at least one piece).
RECURSIVE split(_, _)
split(s, sep) ==
    IF \A i \in 1..Len(s) : s[i] # sep
    THEN <<s>>
    ELSE LET k == CHOOSE i \in 1..Len(s) :
                      s[i] = sep /\ \A j \in 1..(i - 1) : s[j] # sep
         IN <<SubSeq(s, 1, k - 1)>> \o split(SubSeq(s, k + 1, Len(s)), sep)

\* line.split(':')[1].strip() -- Python index 1 is the second piece.
field_value(line) == strip(split(line, ":")[2])

(***************************************************************************)
(* Python dicts                                                            *)
(***************************************************************************)
EmptyDict == [k \in {} |-> 0]

Truthy(d) == DOMAIN d # {}

Has(d, k) == k \in DOMAIN d

Put(d, k, v) == [x \in (DOMAIN d) \cup {k} |-> IF x = k THEN v ELSE d[x]]

Get(d, k, default) == IF k \in DOMAIN d THEN d[k] ELSE default

(***************************************************************************)
(* parse_abc_file: one iteration of the loop over the lines of the file    *)
(***************************************************************************)
MarkerX == <<"X", ":">>
MarkerT == <<"T", ":">>
MarkerR == <<"R", ":">>
MarkerK == <<"K", ":">>

\* Mutant of parse_headers: the guard of line 103 is lost, the last "T:" wins.
parse_headers_last_title(tune, line) ==
    IF startswith(line, MarkerT)
    THEN Put(tune, "T", field_value(line))
    ELSE IF startswith(line, MarkerR)
    THEN Put(tune, "R", field_value(line))
    ELSE IF startswith(line, MarkerK)
    THEN Put(tune, "K", field_value(line))
    ELSE tune

\* The header parsing of lines 101-108, applied to the open tune.
parse_headers(tune, line) ==
    IF startswith(line, MarkerT)
    THEN IF ~Has(tune, "T") THEN Put(tune, "T", field_value(line)) ELSE tune
    ELSE IF startswith(line, MarkerR)
    THEN Put(tune, "R", field_value(line))
    ELSE IF startswith(line, MarkerK)
    THEN Put(tune, "K", field_value(line))
    ELSE tune

\* Mutant of new_tune: the content is not seeded with the opening line.
new_tune_unseeded(line, bid) ==
    Put([book_id |-> bid, content |-> <<>>], "X", field_value(line))

\* The tune a line "X:..." opens (lines 92-93).
new_tune(line, bid) ==
    Put([book_id |-> bid, content |-> line \o <<NL>>], "X", field_value(line))

\* Mutant of parse_line: the line is appended as read, not as stripped.
parse_line_raw(st, raw, bid) ==
    LET line == strip(raw) IN
    IF line = <<>>
    THEN st
    ELSE IF startswith(line, MarkerX)
    THEN [tunes        |-> IF Truthy(st.current_tune)
                           THEN Append(st.tunes, st.current_tune)
                           ELSE st.tunes,
          current_tune |-> new_tune(line, bid),
          in_tune      |-> TRUE]
    ELSE IF st.in_tune
    THEN [st EXCEPT !.current_tune =
              parse_headers(
                  Put(st.current_tune, "content",
                      st.current_tune["content"] \o raw \o <<NL>>),
                  line)]
    ELSE st

\* Mutant of parse_line: a blank line ends the open tune.
parse_line_blank_ends(st, raw, bid) ==
    LET line == strip(raw) IN
    IF line = <<>>
    THEN [st EXCEPT !.in_tune = FALSE]
    ELSE IF startswith(line, MarkerX)
    THEN [tunes        |-> IF Truthy(st.current_tune)
                           THEN Append(st.tunes, st.current_tune)
                           ELSE st.tunes,
          current_tune |-> new_tune(line, bid),
          in_tune      |-> TRUE]
    ELSE IF st.in_tune
    THEN [st EXCEPT !.current_tune =
              parse_headers(
                  Put(st.current_tune, "content",
                      st.current_tune["content"] \o line \o <<NL>>),
                  line)]
    ELSE st

\* Loop body (lines 81-108) on the parser state st and the raw line.
parse_line(st, raw, bid) ==
    LET line == strip(raw) IN
    IF line = <<>>
    THEN st
    ELSE IF startswith(line, MarkerX)
    THEN [tunes        |-> IF Truthy(st.current_tune)
                           THEN Append(st.tunes, st.current_tune)
                           ELSE st.tunes,
          current_tune |-> new_tune(line, bid),
          in_tune      |-> TRUE]
    ELSE IF st.in_tune
    THEN [st EXCEPT !.current_tune =
              parse_headers(
                  Put(st.current_tune, "content",
                      st.current_tune["content"] \o line \o <<NL>>),
                  line)]
    ELSE st

\* Mutant of parse_finish: lines 111-112 are missing, the last tune is lost.
parse_finish_drops_last(st) == st.tunes

\* Lines 110-112 and 117: the last tune is appended and the list returned.
parse_finish(st) ==
    IF Truthy(st.current_tune) THEN Append(st.tunes, st.current_tune)
    ELSE st.tunes

\* Mutant of ParseStart: the parser starts inside a tune with empty content.
ParseStart_in_tune ==
    [tunes |-> <<>>, current_tune |-> [content |-> <<>>], in_tune |-> TRUE]

\* Lines 72-74: the state before the first line.
ParseStart == [tunes |-> <<>>, current_tune |-> EmptyDict, in_tune |-> FALSE]

RECURSIVE parse_loop(_, _, _)
parse_loop(st, ls, bid) ==
    IF ls = <<>> THEN st
    ELSE parse_loop(parse_line(st, Head(ls), bid), Tail(ls), bid)

\* parse_abc_file on a readable file with the given lines.
parse_abc_file(ls, bid) == parse_finish(parse_loop(ParseStart, ls, bid))

(***************************************************************************)
(* Inputs of the parser: files of at most MaxLines lines over LinePool     *)
(***************************************************************************)
LinePool ==
    { <<>>,
      <<" ", "\t">>,
      <<"X", ":", "1">>,
      <<" ", "X", ":", " ", "2">>,
      <<"T", ":", "A">>,
      <<"T", ":", "B", ":", "C", " ">>,
      <<"R", ":", "r">>,
      <<"R", ":", "s">>,
      <<"K", ":", "D">>,
      <<"\t", "K", ":", "G">>,
      <<"a", "b">>,
      <<" ", "c", ":", "d", " ">> }

BookIds == {1, 2}

RECURSIVE SeqsUpTo(_, _)
SeqsUpTo(S, n) ==
    IF n = 0 THEN {<<>>}
    ELSE LET shorter == SeqsUpTo(S, n - 1)
         IN shorter \cup {Append(q, x) : q \in shorter, x \in S}

Files == SeqsUpTo(LinePool, MaxLines)

(***************************************************************************)
(* int(parent_folder), line 135: surrounding whitespace is stripped, one   *)
(* sign is allowed, then decimal digits, single underscores between them.  *)
(***************************************************************************)
Digits == <<"0", "1", "2", "3", "4", "5", "6", "7", "8", "9">>

IsDigit(c) == \E d \in 1..Len(Digits) : Digits[d] = c

DigitValue(c) == (CHOOSE d \in 1..Len(Digits) : Digits[d] = c) - 1

Unsigned(text) ==
    IF text # <<>> /\ text[1] \in {"+", "-"} THEN Tail(text) ELSE text

\* whether int(text) returns (it raises ValueError otherwise)
is_int(text) ==
    LET body == Unsigned(strip(text)) IN
    /\ body # <<>>
    /\ \A i \in 1..Len(body) : IsDigit(body[i]) \/ body[i] = "_"
    /\ body[1] # "_" /\ body[Len(body)] # "_"
    /\ \A i \in 1..(Len(body) - 1) : ~(body[i] = "_" /\ body[i + 1] = "_")

RECURSIVE decimal(_)
decimal(body) ==
    IF body = <<>> THEN 0
    ELSE IF body[Len(body)] = "_" THEN decimal(SubSeq(body, 1, Len(body) - 1))
    ELSE 10 * decimal(SubSeq(body, 1, Len(body) - 1)) + DigitValue(body[Len(body)])

int(text) ==
    LET t == strip(text) IN
    IF t[1] = "-" THEN 0 - decimal(Unsigned(t)) ELSE decimal(Unsigned(t))

(***************************************************************************)
(* The file tunes.db and the SQLite connections to it.                     *)
(* A connection holds the file it opened: a file removed from its path     *)
(* lives on, unchanged, for the connections that still hold it.            *)
(***************************************************************************)
InodeIds == {"i1", "i2"}

NoFile == "absent"

NoConn == "closed"

\* a database file without the table tunes
BlankDb == [table |-> FALSE, rows |-> <<>>, seq |-> 0]

Unknown == <<"U", "n", "k", "n", "o", "w", "n">>

None == <<"None">>

\* os.path.exists(db_name), line 236
os_path_exists(d) == d.path # NoFile

\* Mutant of os_remove: the file is left in place.
os_remove_keeps(d) == d

\* os.remove(db_name), line 237
os_remove(d) == [d EXCEPT !.path = NoFile]

\* sqlite3.connect(db_name), lines 17 and 161: opens the file at the path,
\* creating an empty one when there is none; held are the files in use.
sqlite3_connect(d, held) ==
    IF d.path # NoFile THEN d
    ELSE LET ino == CHOOSE i \in InodeIds : i \notin held
         IN [path |-> ino, inode |-> [d.inode EXCEPT ![ino] = BlankDb]]

\* Mutant of create_table: the table is dropped and created anew.
create_table_recreates(db) == [table |-> TRUE, rows |-> <<>>, seq |-> 0]

\* CREATE TABLE IF NOT EXISTS tunes, lines 21-34
create_table(db) == IF db.table THEN db ELSE [db EXCEPT !.table = TRUE]

LastId(db) == IF db.rows = <<>> THEN 0 ELSE db.rows[Len(db.rows)].id

\* id INTEGER PRIMARY KEY AUTOINCREMENT, line 25: one more than the largest
\* id the table ever held
next_id(db) == (IF db.seq > LastId(db) THEN db.seq ELSE LastId(db)) + 1

\* Mutant of insert_tune: the values of rhythm and key_sig change places.
insert_tune_swapped(db, tune_data) ==
    [db EXCEPT
        !.rows = Append(@, [id               |-> next_id(db),
                            book_id          |-> Get(tune_data, "book_id", None),
                            reference_number |-> Get(tune_data, "X", None),
                            title            |-> Get(tune_data, "T", Unknown),
                            rhythm           |-> Get(tune_data, "K", Unknown),
                            key_sig          |-> Get(tune_data, "R", Unknown),
                            content          |-> Get(tune_data, "content", <<>>)]),
        !.seq = next_id(db)]

\* Mutant of insert_tune: a missing field is stored empty.
insert_tune_empty_default(db, tune_data) ==
    [db EXCEPT
        !.rows = Append(@, [id               |-> next_id(db),
                            book_id          |-> Get(tune_data, "book_id", None),
                            reference_number |-> Get(tune_data, "X", None),
                            title            |-> Get(tune_data, "T", <<>>),
                            rhythm           |-> Get(tune_data, "R", <<>>),
                            key_sig          |-> Get(tune_data, "K", <<>>),
                            content          |-> Get(tune_data, "content", <<>>)]),
        !.seq = next_id(db)]

\* TuneDatabase.insert_tune, lines 36-54
insert_tune(db, tune_data) ==
    [db EXCEPT
        !.rows = Append(@, [id               |-> next_id(db),
                            book_id          |-> Get(tune_data, "book_id", None),
                            reference_number |-> Get(tune_data, "X", None),
                            title            |-> Get(tune_data, "T", Unknown),
                            rhythm           |-> Get(tune_data, "R", Unknown),
                            key_sig          |-> Get(tune_data, "K", Unknown),
                            content          |-> Get(tune_data, "content", <<>>)]),
        !.seq = next_id(db)]

\* whether "SELECT * FROM tunes" succeeds: it raises "no such table" otherwise
can_load(db) == db.table

\* Mutant of load_data: the query stops after the first row.
load_data_first_row(db) ==
    [loaded |-> TRUE, rows |-> SubSeq(db.rows, 1, IF db.rows = <<>> THEN 0 ELSE 1)]

\* TuneAnalyzer.load_data, lines 163-166: every row, in rowid order
load_data(db) == [loaded |-> TRUE, rows |-> db.rows]

\* df = pd.DataFrame(), line 209: no columns, no rows
EmptyFrame == [loaded |-> FALSE, rows |-> <<>>]

\* df.empty, lines 226, 249, 260, 267, 277
empty(frame) == frame.rows = <<>>

(***************************************************************************)
(* The filters of TuneAnalyzer.                                            *)
(* A filter gives the rows it returns, or the exception it raises:         *)
(* frame['column'] raises KeyError on a frame without columns, and         *)
(* Series.str.contains takes its argument as a regular expression (the     *)
(* default regex=True), compiled with re.IGNORECASE for case=False.        *)
(***************************************************************************)
UpperCase ==
    <<"A", "B", "C", "D", "E", "F", "G", "H", "I", "J", "K", "L", "M",
      "N", "O", "P", "Q", "R", "S", "T", "U", "V", "W", "X", "Y", "Z">>

LowerCase ==
    <<"a", "b", "c", "d", "e", "f", "g", "h", "i", "j", "k", "l", "m",
      "n", "o", "p", "q", "r", "s", "t", "u", "v", "w", "x", "y", "z">>

\* the letter without its case, as re.IGNORECASE compares letters
lower(c) ==
    IF \E i \in 1..Len(UpperCase) : UpperCase[i] = c
    THEN LowerCase[CHOOSE i \in 1..Len(UpperCase) : UpperCase[i] = c]
    ELSE c

\* The patterns of the model are made of letters, digits, spaces, "." and
\* parentheses. The nesting depth after each prefix of the pattern:
RECURSIVE paren_depths(_, _)
paren_depths(pat, depth) ==
    IF pat = <<>> THEN <<depth>>
    ELSE <<depth>> \o paren_depths(Tail(pat),
                                    IF Head(pat) = "(" THEN depth + 1
                                    ELSE IF Head(pat) = ")" THEN depth - 1
                                    ELSE depth)

\* re.compile(pat) raises re.error: a parenthesis without its partner
re_error(pat) ==
    LET ds == paren_depths(pat, 0)
    IN \/ \E i \in 1..Len(ds) : ds[i] < 0
       \/ ds[Len(ds)] # 0

\* what is left to match once the groups are opened: characters and "."
re_atoms(pat) == SelectSeq(pat, LAMBDA c : c \notin {"(", ")"})

\* "." matches any character but a newline, a letter matches in either case
re_match_at(atoms, s, i) ==
    \A k \in 1..Len(atoms) :
        \/ atoms[k] = "." /\ s[i + k] # NL
        \/ atoms[k] # "." /\ lower(atoms[k]) = lower(s[i + k])

\* re.compile(pat, re.IGNORECASE).search(s) is not None
re_search(pat, s) ==
    LET atoms == re_atoms(pat)
    IN \E i \in 0..(Len(s) - Len(atoms)) : re_match_at(atoms, s, i)

\* one element of Series.str.contains(pat, case=False, na=False)
str_contains(value, pat) == value # None /\ re_search(pat, value)

Returned(rows) == [raised |-> "none", rows |-> rows]

Raised(exception) == [raised |-> exception, rows |-> <<>>]

\* Mutant of get_tunes_by_book: the books from the given one on.
get_tunes_by_book_from(frame, bid) ==
    IF ~frame.loaded THEN Raised("KeyError")
    ELSE Returned(SelectSeq(frame.rows, LAMBDA r : r.book_id >= bid))

\* Mutant of get_tunes_by_book: a frame without columns has no matching row.
get_tunes_by_book_lenient(frame, bid) ==
    Returned(SelectSeq(frame.rows, LAMBDA r : r.book_id = bid))

\* TuneAnalyzer.get_tunes_by_book, lines 168-170
get_tunes_by_book(frame, bid) ==
    IF ~frame.loaded THEN Raised("KeyError")
    ELSE Returned(SelectSeq(frame.rows, LAMBDA r : r.book_id = bid))

\* TuneAnalyzer.get_tunes_by_rhythm, lines 172-175
get_tunes_by_rhythm(frame, rhythm) ==
    IF ~frame.loaded THEN Raised("KeyError")
    ELSE IF re_error(rhythm) THEN Raised("re.error")
    ELSE Returned(SelectSeq(frame.rows,
                            LAMBDA r : str_contains(r.rhythm, rhythm)))

\* TuneAnalyzer.search_tunes, lines 177-179
search_tunes(frame, search_term) ==
    IF ~frame.loaded THEN Raised("KeyError")
    ELSE IF re_error(search_term) THEN Raised("re.error")
    ELSE Returned(SelectSeq(frame.rows,
                            LAMBDA r : str_contains(r.title, search_term)))

\* TuneAnalyzer.plot_key_distribution, lines 181-193: the frame has no column
\* key_clean, line 187 raises KeyError
plot_key_distribution(frame) ==
    IF empty(frame) THEN Returned(<<>>) ELSE Raised("KeyError")

\* the last call and its outcome
NoCall ==
    [op |-> "none", term |-> <<>>, book |-> 0, raised |-> "none", rows |-> <<>>]

Call(op) == [NoCall EXCEPT !.op = op]

Raise(op, exception) == [NoCall EXCEPT !.op = op, !.raised = exception]

\* the texts typed at the prompts of options 3 and 4, and the arguments of
\* the filters
SearchPool ==
    { <<>>,
      <<"j", "i", "g">>,
      <<"J", "I">>,
      <<".">>,
      <<"e", ".", "l">>,
      <<"(">>,
      <<"x">> }

BookInputs == { <<"1">>, <<"2">>, <<" ", "1", "_", "0">>, <<"x">> }

(***************************************************************************)
(* The directory abc_books: *.abc files the user has put there             *)
(***************************************************************************)
FilePool ==
    { [name |-> "a.abc", folder |-> <<"1">>, readable |-> TRUE,
       text |-> << <<"X", ":", "1">>, <<"T", ":", "A">>, <<"K", ":", "D">> >>],
      [name |-> "b.abc", folder |-> <<"2">>, readable |-> TRUE,
       text |-> << <<"X", ":", "1">>, <<" ", "X", ":", " ", "2">>,
                   <<"R", ":", "r">> >>],
      [name |-> "c.abc", folder |-> <<"2">>, readable |-> TRUE,
       text |-> << <<"T", ":", "A">>, <<"a", "b">> >>],
      [name |-> "d.abc", folder |-> <<"a", "b", "c">>, readable |-> TRUE,
       text |-> << <<"X", ":", "1">> >>],
      [name |-> "e.abc", folder |-> <<" ", "1", "_", "0">>, readable |-> FALSE,
       text |-> << <<"X", ":", "1">> >>],
      [name |-> "sample0.abc", folder |-> <<"0">>, readable |-> TRUE,
       text |-> << <<"X", ":", "9">>, <<"K", ":", "C">> >>] }

(***************************************************************************)
(* setup_data.py: create_dummy_data writes one file of two tunes into each *)
(* of the folders abc_books/0, abc_books/1 and abc_books/2                 *)
(***************************************************************************)
\* str(i), line 13, for the numbers of range(3)
str(i) == <<Digits[i + 1]>>

\* f"sample{i}.abc", line 32
sample_name(i) ==
    IF i = 0 THEN "sample0.abc" ELSE IF i = 1 THEN "sample1.abc" ELSE "sample2.abc"

\* the lines of the text of lines 18-31 for book i
sample_content(i) ==
    LET d == str(i)[1] IN
    << <<"X", ":", d, "0", "1">>,
       <<"T", ":", "T", "h", "e", " ", "T", "e", "s", "t", " ", "R", "e",
         "e", "l", " ", d>>,
       <<"R", ":", "R", "e", "e", "l">>,
       <<"M", ":", "4", "/", "4">>,
       <<"K", ":", "D">>,
       <<"A", "B", "C", "D", " ", "E", "F", "G", "H", "|">>,
       <<"%", "-", "-", "-">>,
       <<"X", ":", d, "0", "2">>,
       <<"T", ":", "T", "h", "e", " ", "Q", "u", "i", "c", "k", " ", "J",
         "i", "g", " ", d>>,
       <<"R", ":", "J", "i", "g">>,
       <<"M", ":", "6", "/", "8">>,
       <<"K", ":", "G">>,
       <<"G", "B", "d", "B", " ", "G", "B", "d", "B", "|">> >>

\* lines 12-33: the three files are created or overwritten, whatever else
\* abc_books holds stays
create_dummy_data(books) ==
    LET written == {[name |-> sample_name(i), folder |-> str(i),
                     readable |-> TRUE, text |-> sample_content(i)] :
                    i \in 0..2}
    IN {f \in books :
           \A w \in written : f.name # w.name \/ f.folder # w.folder}
       \cup written

\* abc_books before the program is first started: files of the pool and files
\* setup_data.py has written
Directories ==
    {d \in SUBSET (FilePool \cup create_dummy_data({})) :
        /\ Cardinality(d) <= MaxFiles
        /\ \A f, g \in d : f.name = g.name /\ f.folder = g.folder => f = g}

\* Mutant of parse_file: what can be decoded of an unreadable file is parsed.
parse_file_lenient(f) == parse_abc_file(f.text, int(f.folder))

\* parse_abc_file(file_path, book_id) on a file of the directory: a file that
\* cannot be read or decoded raises at lines 77-78, and line 117 returns [].
parse_file(f) ==
    IF f.readable THEN parse_abc_file(f.text, int(f.folder)) ELSE <<>>

(***************************************************************************)
(* Spec: main(), the re-scan of menu option 1 and the processes that run it *)
(***************************************************************************)
ParseIdle ==
    /\ lines = <<>>
    /\ book_id = 0
    /\ line_no = 1
    /\ tunes = <<>>
    /\ current_tune = EmptyDict
    /\ in_tune = FALSE
    /\ parse_pc = "idle"

\* no process runs and tunes.db does not exist
MainInit ==
    /\ abc_books \in Directories
    /\ disk = [path |-> NoFile, inode |-> [i \in InodeIds |-> BlankDb]]
    /\ inserted = [i \in InodeIds |-> <<>>]
    /\ pc = "off"
    /\ analyzer_conn = NoConn
    /\ db_conn = NoConn
    /\ df = EmptyFrame
    /\ to_visit = {}
    /\ file_path = NoFile
    /\ tunes_found = <<>>
    /\ next_tune = 1
    /\ total_tunes = 0
    /\ printed = {}
    /\ last_call = NoCall

Init == MainInit /\ ParseIdle

\* the files some connection of the process holds open
Held == {analyzer_conn, db_conn} \ {NoConn}

\* the end of the process: its connections are closed, and a file that is
\* neither at the path nor held any more is gone
Released(d) ==
    [d EXCEPT !.inode = [i \in InodeIds |->
                            IF i = d.path THEN d.inode[i] ELSE BlankDb]]

\* main() returns or an exception leaves it: the process ends with the files
\* d on the disk, its connections and its locals are gone
EndProcess(d, call) ==
    /\ disk' = Released(d)
    /\ inserted' = [i \in InodeIds |->
                       IF i = d.path /\ d.inode[i].rows # <<>>
                       THEN inserted[i] ELSE <<>>]
    /\ analyzer_conn' = NoConn
    /\ db_conn' = NoConn
    /\ df' = EmptyFrame
    /\ to_visit' = {}
    /\ file_path' = NoFile
    /\ tunes_found' = <<>>
    /\ next_tune' = 1
    /\ pc' = "off"
    /\ last_call' = call
    /\ UNCHANGED <<abc_books, total_tunes, printed, parse_vars>>

\* setup_data.py is run while the program does not run or waits at its menu;
\* abc_books holds at most MaxBooks files
CreateDummyData ==
    /\ pc \in {"off", "menu"}
    /\ Cardinality(create_dummy_data(abc_books)) <= MaxBooks
    /\ abc_books' = create_dummy_data(abc_books)
    /\ UNCHANGED <<disk, inserted, pc, analyzer_conn, db_conn, df, to_visit,
                   file_path, tunes_found, next_tune, total_tunes, printed,
                   last_call, parse_vars>>

\* lines 213-214 and 209: analyzer = TuneAnalyzer(db_name), df empty
StartMain ==
    /\ pc = "off"
    /\ disk' = sqlite3_connect(disk, {})
    /\ inserted' = IF disk.path = NoFile
                   THEN [inserted EXCEPT ![disk'.path] = <<>>] ELSE inserted
    /\ analyzer_conn' = disk'.path
    /\ df' = EmptyFrame
    /\ pc' = "init_load"
    /\ total_tunes' = 0
    /\ printed' = {}
    /\ last_call' = Call("TuneAnalyzer")
    /\ UNCHANGED <<abc_books, db_conn, to_visit, file_path, tunes_found,
                   next_tune, parse_vars>>

\* lines 217-224: the initial load; its exception is caught
InitialLoad ==
    /\ pc = "init_load"
    /\ df' = IF can_load(disk.inode[analyzer_conn])
             THEN load_data(disk.inode[analyzer_conn]) ELSE df
    /\ last_call' = IF can_load(disk.inode[analyzer_conn])
                    THEN Call("load_data")
                    ELSE Raise("load_data", "DatabaseError")
    /\ pc' = "menu"
    /\ UNCHANGED <<abc_books, disk, inserted, analyzer_conn, db_conn, to_visit,
                   file_path, tunes_found, next_tune, total_tunes, printed,
                   parse_vars>>

\* lines 233-240: the old file is removed, db = TuneDatabase(db_name) creates
\* the file and the table, and process_directory starts (lines 127-131)
Rescan ==
    /\ pc = "menu"
    /\ LET removed == IF os_path_exists(disk) THEN os_remove(disk) ELSE disk
           opened  == sqlite3_connect(removed, Held)
           ino     == opened.path
       IN /\ disk' = [opened EXCEPT !.inode[ino] = create_table(@)]
          /\ db_conn' = ino
          /\ inserted' = IF removed.path = NoFile
                         THEN [inserted EXCEPT ![ino] = <<>>] ELSE inserted
    /\ total_tunes' = 0
    /\ to_visit' = abc_books
    /\ printed' = {}
    /\ last_call' = Call("process_directory")
    /\ pc' = "scan"
    /\ UNCHANGED <<abc_books, analyzer_conn, df, file_path, tunes_found,
                   next_tune, parse_vars>>

\* lines 236-239: TuneDatabase(db_name) raises sqlite3.Error, because the file
\* cannot be created (line 17) or because the table cannot (lines 22-34, where
\* the file is there already); nothing catches it, the process ends
RescanFails ==
    /\ pc = "menu"
    /\ LET removed == IF os_path_exists(disk) THEN os_remove(disk) ELSE disk
           opened  == sqlite3_connect(removed, Held)
       IN \E d \in {removed, opened} :
              EndProcess(d, Raise("TuneDatabase", "sqlite3.Error"))

\* Mutant of SkipFile: the loop ends at the file it cannot take.
SkipFile_breaks ==
    /\ pc = "scan"
    /\ \E f \in to_visit :
           /\ ~is_int(f.folder)
           /\ to_visit' = {}
           /\ printed' = printed \cup
                  {[what |-> "Skipping", file |-> f.name, tunes |-> 0]}
    /\ UNCHANGED <<abc_books, disk, inserted, pc, analyzer_conn, db_conn, df,
                   file_path, tunes_found, next_tune, total_tunes, last_call,
                   parse_vars>>

\* lines 133-138: the parent folder is no number, the file is skipped
SkipFile ==
    /\ pc = "scan"
    /\ \E f \in to_visit :
           /\ ~is_int(f.folder)
           /\ to_visit' = to_visit \ {f}
           /\ printed' = printed \cup
                  {[what |-> "Skipping", file |-> f.name, tunes |-> 0]}
    /\ UNCHANGED <<abc_books, disk, inserted, pc, analyzer_conn, db_conn, df,
                   file_path, tunes_found, next_tune, total_tunes, last_call,
                   parse_vars>>

\* lines 133-141: the next file rglob yields is parsed; line 115 prints the
\* error of a file that cannot be read
ParseFile ==
    /\ pc = "scan"
    /\ \E f \in to_visit :
           /\ is_int(f.folder)
           /\ tunes_found' = parse_file(f)
           /\ to_visit' = to_visit \ {f}
           /\ file_path' = f.name
           /\ printed' = IF f.readable THEN printed
                         ELSE printed \cup {[what |-> "Error reading",
                                             file |-> f.name, tunes |-> 0]}
    /\ next_tune' = 1
    /\ pc' = "insert"
    /\ UNCHANGED <<abc_books, disk, inserted, analyzer_conn, db_conn, df,
                   total_tunes, last_call, parse_vars>>

\* lines 144-145: db.insert_tune(tune)
InsertTune ==
    /\ pc = "insert"
    /\ next_tune <= Len(tunes_found)
    /\ disk' = [disk EXCEPT
                   !.inode[db_conn] = insert_tune(@, tunes_found[next_tune])]
    /\ inserted' = [inserted EXCEPT
                       ![db_conn] = Append(@, tunes_found[next_tune])]
    /\ next_tune' = next_tune + 1
    /\ UNCHANGED <<abc_books, pc, analyzer_conn, db_conn, df, to_visit,
                   file_path, tunes_found, total_tunes, printed, last_call,
                   parse_vars>>

\* Mutant of InsertFails: the exception is caught and the loop goes on with
\* the next tune.
InsertFails_swallowed ==
    /\ pc = "insert"
    /\ next_tune <= Len(tunes_found)
    /\ next_tune' = next_tune + 1
    /\ last_call' = Raise("insert_tune", "sqlite3.Error")
    /\ UNCHANGED <<abc_books, disk, inserted, pc, analyzer_conn, db_conn, df,
                   to_visit, file_path, tunes_found, total_tunes, printed,
                   parse_vars>>

\* lines 145 and 43-54: execute or commit raises sqlite3.Error, no row is
\* stored; neither insert_tune, process_directory nor main catches it, the
\* process ends
InsertFails ==
    /\ pc = "insert"
    /\ next_tune <= Len(tunes_found)
    /\ EndProcess(disk, Raise("insert_tune", "sqlite3.Error"))

\* lines 147-148: the file is counted
FileDone ==
    /\ pc = "insert"
    /\ next_tune > Len(tunes_found)
    /\ total_tunes' = total_tunes + Len(tunes_found)
    /\ printed' = printed \cup {[what |-> "Processed", file |-> file_path,
                                 tunes |-> Len(tunes_found)]}
    /\ file_path' = NoFile
    /\ tunes_found' = <<>>
    /\ next_tune' = 1
    /\ pc' = "scan"
    /\ UNCHANGED <<abc_books, disk, inserted, analyzer_conn, db_conn, df,
                   to_visit, last_call, parse_vars>>

\* lines 150 and 240-242: process_directory returns, db.close()
ScanDone ==
    /\ pc = "scan"
    /\ to_visit = {}
    /\ db_conn' = NoConn
    /\ pc' = "reload"
    /\ UNCHANGED <<abc_books, disk, inserted, analyzer_conn, df, to_visit,
                   file_path, tunes_found, next_tune, total_tunes, printed,
                   last_call, parse_vars>>

\* lines 245-246: df = analyzer.load_data()
Reload ==
    /\ pc = "reload"
    /\ can_load(disk.inode[analyzer_conn])
    /\ df' = load_data(disk.inode[analyzer_conn])
    /\ last_call' = Call("load_data")
    /\ pc' = "menu"
    /\ UNCHANGED <<abc_books, disk, inserted, analyzer_conn, db_conn, to_visit,
                   file_path, tunes_found, next_tune, total_tunes, printed,
                   parse_vars>>

\* line 245 raises ("no such table"); nothing catches it, the process ends
ReloadFails ==
    /\ pc = "reload"
    /\ ~can_load(disk.inode[analyzer_conn])
    /\ EndProcess(disk, Raise("load_data", "DatabaseError"))

\* lines 249-251, 260, 267 and 277: options 2 to 5 on an empty frame print
\* a message and return to the menu
OptionRefused ==
    /\ pc = "menu"
    /\ empty(df)
    /\ last_call' = Call("refused")
    /\ UNCHANGED <<abc_books, disk, inserted, pc, analyzer_conn, db_conn, df,
                   to_visit, file_path, tunes_found, next_tune, total_tunes,
                   printed, parse_vars>>

\* lines 248-257: option 2 prints statistics of the frame
ShowStatistics ==
    /\ pc = "menu"
    /\ ~empty(df)
    /\ last_call' = Call("statistics")
    /\ UNCHANGED <<abc_books, disk, inserted, pc, analyzer_conn, db_conn, df,
                   to_visit, file_path, tunes_found, next_tune, total_tunes,
                   printed, parse_vars>>

\* lines 259-264: option 3 prints the rows search_tunes returns
SearchTitle ==
    /\ pc = "menu"
    /\ ~empty(df)
    /\ \E term \in SearchPool :
           /\ search_tunes(df, term).raised = "none"
           /\ last_call' = [Call("search_tunes") EXCEPT
                               !.term = term,
                               !.rows = search_tunes(df, term).rows]
    /\ UNCHANGED <<abc_books, disk, inserted, pc, analyzer_conn, db_conn, df,
                   to_visit, file_path, tunes_found, next_tune, total_tunes,
                   printed, parse_vars>>

\* line 262 raises; nothing catches it, the process ends
SearchTitleFails ==
    /\ pc = "menu"
    /\ ~empty(df)
    /\ \E term \in SearchPool :
           /\ search_tunes(df, term).raised # "none"
           /\ EndProcess(disk, [Raise("search_tunes",
                                      search_tunes(df, term).raised)
                                   EXCEPT !.term = term])

\* lines 266-272: option 4 prints the rows get_tunes_by_book returns
ListBook ==
    /\ pc = "menu"
    /\ ~empty(df)
    /\ \E typed \in BookInputs :
           /\ is_int(typed)
           /\ last_call' = [Call("get_tunes_by_book") EXCEPT
                               !.book = int(typed),
                               !.rows = get_tunes_by_book(df, int(typed)).rows]
    /\ UNCHANGED <<abc_books, disk, inserted, pc, analyzer_conn, db_conn, df,
                   to_visit, file_path, tunes_found, next_tune, total_tunes,
                   printed, parse_vars>>

\* lines 269 and 273-274: what was typed is no number
ListBookInvalid ==
    /\ pc = "menu"
    /\ ~empty(df)
    /\ \E typed \in BookInputs :
           /\ ~is_int(typed)
           /\ last_call' = Raise("int", "ValueError")
    /\ UNCHANGED <<abc_books, disk, inserted, pc, analyzer_conn, db_conn, df,
                   to_visit, file_path, tunes_found, next_tune, total_tunes,
                   printed, parse_vars>>

\* lines 276-279: option 5; plot_key_distribution raises on a frame with
\* rows, nothing catches it, the process ends
PlotKeys ==
    /\ pc = "menu"
    /\ ~empty(df)
    /\ plot_key_distribution(df).raised # "none"
    /\ EndProcess(disk, Raise("plot_key_distribution",
                              plot_key_distribution(df).raised))

\* lines 281-283: option 6 leaves the loop, the process ends
Exit ==
    /\ pc = "menu"
    /\ EndProcess(disk, Call("exit"))

Next ==
    \/ CreateDummyData
    \/ StartMain
    \/ InitialLoad
    \/ Rescan
    \/ RescanFails
    \/ SkipFile
    \/ ParseFile
    \/ InsertTune
    \/ InsertFails
    \/ FileDone
    \/ ScanDone
    \/ Reload
    \/ ReloadFails
    \/ OptionRefused
    \/ ShowStatistics
    \/ SearchTitle
    \/ SearchTitleFails
    \/ ListBook
    \/ ListBookInvalid
    \/ PlotKeys
    \/ Exit

Spec == Init /\ [][Next]_vars

\* main() is not running: parse_abc_file is called on its own
MainIdle ==
    /\ abc_books = {}
    /\ disk = [path |-> NoFile, inode |-> [i \in InodeIds |-> BlankDb]]
    /\ inserted = [i \in InodeIds |-> <<>>]
    /\ pc = "off"
    /\ analyzer_conn = NoConn
    /\ db_conn = NoConn
    /\ df = EmptyFrame
    /\ to_visit = {}
    /\ file_path = NoFile
    /\ tunes_found = <<>>
    /\ next_tune = 1
    /\ total_tunes = 0
    /\ printed = {}
    /\ last_call = NoCall

(***************************************************************************)
(* SpecParse: parse_abc_file, one loop iteration per step                  *)
(***************************************************************************)
ParseState == [tunes |-> tunes, current_tune |-> current_tune, in_tune |-> in_tune]

ParseInit ==
    /\ lines \in Files
    /\ book_id \in BookIds
    /\ line_no = 1
    /\ tunes = ParseStart.tunes
    /\ current_tune = ParseStart.current_tune
    /\ in_tune = ParseStart.in_tune
    /\ parse_pc = "loop"
    /\ MainIdle

AtLine == parse_pc = "loop" /\ line_no <= Len(lines)

Iterate ==
    LET st == parse_line(ParseState, lines[line_no], book_id) IN
    /\ tunes' = st.tunes
    /\ current_tune' = st.current_tune
    /\ in_tune' = st.in_tune
    /\ line_no' = line_no + 1
    /\ UNCHANGED <<lines, book_id, parse_pc, main_vars>>

\* lines 81-83: a line that is empty once stripped is skipped
SkipBlank ==
    /\ AtLine
    /\ strip(lines[line_no]) = <<>>
    /\ Iterate

\* lines 86-94: a line "X:" closes the open tune and opens a new one
OpenTune ==
    /\ AtLine
    /\ strip(lines[line_no]) # <<>>
    /\ startswith(strip(lines[line_no]), MarkerX)
    /\ Iterate

\* lines 96-108: any other line while a tune is open
AppendLine ==
    /\ AtLine
    /\ strip(lines[line_no]) # <<>>
    /\ ~startswith(strip(lines[line_no]), MarkerX)
    /\ in_tune
    /\ Iterate

\* no branch taken: a non-blank, non-"X:" line while no tune is open
DropLine ==
    /\ AtLine
    /\ strip(lines[line_no]) # <<>>
    /\ ~startswith(strip(lines[line_no]), MarkerX)
    /\ ~in_tune
    /\ Iterate

\* lines 110-117: after the loop
ParseReturn ==
    /\ parse_pc = "loop"
    /\ line_no > Len(lines)
    /\ tunes' = parse_finish(ParseState)
    /\ parse_pc' = "returned"
    /\ UNCHANGED <<lines, book_id, line_no, current_tune, in_tune, main_vars>>

ParseNext ==
    \/ SkipBlank
    \/ OpenTune
    \/ AppendLine
    \/ DropLine
    \/ ParseReturn

SpecParse == ParseInit /\ [][ParseNext]_vars

(***************************************************************************)
(* SpecStore: a client that calls TuneDatabase and TuneAnalyzer in any     *)
(* order on tunes.db, inserting at most MaxRows tunes                      *)
(***************************************************************************)
\* the tunes the files of the pool hold
TunePool ==
    UNION { {parse_file(f)[k] : k \in 1..Len(parse_file(f))} :
            f \in {g \in FilePool : is_int(g.folder)} }

StoreInit == MainIdle /\ ParseIdle

\* lines 15-19: db = TuneDatabase(db_name) connects and creates the table
NewTuneDatabase ==
    /\ db_conn = NoConn
    /\ LET opened == sqlite3_connect(disk, Held)
           ino    == opened.path
       IN /\ disk' = [opened EXCEPT !.inode[ino] = create_table(@)]
          /\ db_conn' = ino
          /\ inserted' = IF disk.path = NoFile
                         THEN [inserted EXCEPT ![ino] = <<>>] ELSE inserted
    /\ last_call' = Call("TuneDatabase")
    /\ UNCHANGED <<abc_books, pc, analyzer_conn, df, to_visit, file_path,
                   tunes_found, next_tune, total_tunes, printed, parse_vars>>

\* lines 21-34: db.create_table() on the open database
CreateTable ==
    /\ db_conn # NoConn
    /\ disk' = [disk EXCEPT !.inode[db_conn] = create_table(@)]
    /\ last_call' = Call("create_table")
    /\ UNCHANGED <<abc_books, inserted, pc, analyzer_conn, db_conn, df,
                   to_visit, file_path, tunes_found, next_tune, total_tunes,
                   printed, parse_vars>>

\* lines 36-54: db.insert_tune(tune_data)
CallInsertTune ==
    /\ db_conn # NoConn
    /\ Len(disk.inode[db_conn].rows) < MaxRows
    /\ \E tune_data \in TunePool :
           /\ disk' = [disk EXCEPT !.inode[db_conn] = insert_tune(@, tune_data)]
           /\ inserted' = [inserted EXCEPT ![db_conn] = Append(@, tune_data)]
    /\ last_call' = Call("insert_tune")
    /\ UNCHANGED <<abc_books, pc, analyzer_conn, db_conn, df, to_visit,
                   file_path, tunes_found, next_tune, total_tunes, printed,
                   parse_vars>>

\* lines 56-58: db.close()
CloseDatabase ==
    /\ db_conn # NoConn
    /\ db_conn' = NoConn
    /\ last_call' = Call("close")
    /\ UNCHANGED <<abc_books, disk, inserted, pc, analyzer_conn, df, to_visit,
                   file_path, tunes_found, next_tune, total_tunes, printed,
                   parse_vars>>

\* lines 160-161: analyzer = TuneAnalyzer(db_name) connects
NewTuneAnalyzer ==
    /\ analyzer_conn = NoConn
    /\ disk' = sqlite3_connect(disk, Held)
    /\ analyzer_conn' = disk'.path
    /\ inserted' = IF disk.path = NoFile
                   THEN [inserted EXCEPT ![disk'.path] = <<>>] ELSE inserted
    /\ last_call' = Call("TuneAnalyzer")
    /\ UNCHANGED <<abc_books, pc, db_conn, df, to_visit, file_path,
                   tunes_found, next_tune, total_tunes, printed, parse_vars>>

\* lines 163-166: df = analyzer.load_data()
LoadData ==
    /\ analyzer_conn # NoConn
    /\ can_load(disk.inode[analyzer_conn])
    /\ df' = load_data(disk.inode[analyzer_conn])
    /\ last_call' = Call("load_data")
    /\ UNCHANGED <<abc_books, disk, inserted, pc, analyzer_conn, db_conn,
                   to_visit, file_path, tunes_found, next_tune, total_tunes,
                   printed, parse_vars>>

\* line 166 raises ("no such table"): nothing is assigned to df
LoadDataFails ==
    /\ analyzer_conn # NoConn
    /\ ~can_load(disk.inode[analyzer_conn])
    /\ last_call' = Raise("load_data", "DatabaseError")
    /\ UNCHANGED <<abc_books, disk, inserted, pc, analyzer_conn, db_conn, df,
                   to_visit, file_path, tunes_found, next_tune, total_tunes,
                   printed, parse_vars>>

StoreNext ==
    \/ NewTuneDatabase
    \/ CreateTable
    \/ CallInsertTune
    \/ CloseDatabase
    \/ NewTuneAnalyzer
    \/ LoadData
    \/ LoadDataFails

SpecStore == StoreInit /\ [][StoreNext]_vars

(***************************************************************************)
(* SpecQuery: the filters of TuneAnalyzer applied to a view of at most     *)
(* MaxRows rows, or to the frame without columns of line 209               *)
(***************************************************************************)
\* rows as load_data gives them, the id aside; None is SQL NULL
RowPool ==
    { [book_id |-> 1, reference_number |-> <<"1">>,
       title |-> <<"J", "i", "g">>, rhythm |-> <<"j", "i", "g">>,
       key_sig |-> <<"D">>, content |-> <<>>],
      [book_id |-> 2, reference_number |-> <<"1">>,
       title |-> <<"A", ".", "b">>, rhythm |-> <<"R", "e", "e", "l">>,
       key_sig |-> Unknown, content |-> <<>>],
      [book_id |-> 1, reference_number |-> <<"2">>,
       title |-> None, rhythm |-> None,
       key_sig |-> <<"G">>, content |-> <<>>],
      [book_id |-> 2, reference_number |-> <<"3">>,
       title |-> Unknown, rhythm |-> <<"J", "I", "G">>,
       key_sig |-> <<"D">>, content |-> <<>>] }

\* the frame read from a table whose k-th row has the id k
View(bodies) ==
    [loaded |-> TRUE,
     rows |-> [k \in 1..Len(bodies) |->
                  [id               |-> k,
                   book_id          |-> bodies[k].book_id,
                   reference_number |-> bodies[k].reference_number,
                   title            |-> bodies[k].title,
                   rhythm           |-> bodies[k].rhythm,
                   key_sig          |-> bodies[k].key_sig,
                   content          |-> bodies[k].content]]]

Views == {EmptyFrame} \cup {View(bodies) : bodies \in SeqsUpTo(RowPool, MaxRows)}

BookArgs == {1, 2, 3}

QueryInit ==
    /\ ParseIdle
    /\ abc_books = {}
    /\ disk = [path |-> NoFile, inode |-> [i \in InodeIds |-> BlankDb]]
    /\ inserted = [i \in InodeIds |-> <<>>]
    /\ pc = "off"
    /\ analyzer_conn = NoConn
    /\ db_conn = NoConn
    /\ df \in Views
    /\ to_visit = {}
    /\ file_path = NoFile
    /\ tunes_found = <<>>
    /\ next_tune = 1
    /\ total_tunes = 0
    /\ printed = {}
    /\ last_call = NoCall

\* the record of a call of a filter and its outcome
Answer(op, term, book, outcome) ==
    [op |-> op, term |-> term, book |-> book,
     raised |-> outcome.raised, rows |-> outcome.rows]

\* lines 168-170: a filter is called on the view; nothing but the record of
\* the call changes
QueryByBook ==
    /\ \E bid \in BookArgs :
           last_call' = Answer("get_tunes_by_book", <<>>, bid,
                               get_tunes_by_book(df, bid))
    /\ UNCHANGED <<abc_books, disk, inserted, pc, analyzer_conn, db_conn, df,
                   to_visit, file_path, tunes_found, next_tune, total_tunes,
                   printed, parse_vars>>

\* lines 172-175
QueryByRhythm ==
    /\ \E rhythm \in SearchPool :
           last_call' = Answer("get_tunes_by_rhythm", rhythm, 0,
                               get_tunes_by_rhythm(df, rhythm))
    /\ UNCHANGED <<abc_books, disk, inserted, pc, analyzer_conn, db_conn, df,
                   to_visit, file_path, tunes_found, next_tune, total_tunes,
                   printed, parse_vars>>

\* lines 177-179
QueryByTitle ==
    /\ \E search_term \in SearchPool :
           last_call' = Answer("search_tunes", search_term, 0,
                               search_tunes(df, search_term))
    /\ UNCHANGED <<abc_books, disk, inserted, pc, analyzer_conn, db_conn, df,
                   to_visit, file_path, tunes_found, next_tune, total_tunes,
                   printed, parse_vars>>

QueryNext ==
    \/ QueryByBook
    \/ QueryByRhythm
    \/ QueryByTitle

SpecQuery == QueryInit /\ [][QueryNext]_vars

(***************************************************************************)
(* Vocabulary of the properties of the parser.                             *)
(* A line counts as the parser reads it (line 81): blank when it holds     *)
(* only whitespace, an opening line when its text starts with "X:".        *)
(***************************************************************************)
IsBlank(raw) == \A i \in 1..Len(raw) : raw[i] \in Whitespace

\* the text of a line between its surrounding whitespace
RECURSIVE Trimmed(_)
Trimmed(raw) ==
    IF raw = <<>> THEN raw
    ELSE IF raw[1] \in Whitespace THEN Trimmed(SubSeq(raw, 2, Len(raw)))
    ELSE IF raw[Len(raw)] \in Whitespace THEN Trimmed(SubSeq(raw, 1, Len(raw) - 1))
    ELSE raw

HasMarker(raw, marker) ==
    LET t == Trimmed(raw) IN
    Len(t) >= 2 /\ t[1] = marker[1] /\ t[2] = marker[2]

IsOpening(raw) == HasMarker(raw, MarkerX)

\* the lines the loop has consumed so far
Seen == SubSeq(lines, 1, line_no - 1)

\* the records built so far: those already in the output, then the open one
Records ==
    IF parse_pc = "loop" /\ in_tune THEN Append(tunes, current_tune) ELSE tunes

Openings(ls) == {i \in 1..Len(ls) : IsOpening(ls[i])}

NthOpening(ls, k) ==
    CHOOSE i \in Openings(ls) : Cardinality({j \in Openings(ls) : j <= i}) = k

\* last line of the k-th record: the line before the next opening line
SegmentEnd(ls, k) ==
    IF k < Cardinality(Openings(ls)) THEN NthOpening(ls, k + 1) - 1 ELSE Len(ls)

\* the non-blank lines that follow the k-th opening line, up to the next one
Followers(ls, k) ==
    {i \in (NthOpening(ls, k) + 1)..SegmentEnd(ls, k) : ~IsBlank(ls[i])}

MarkerLines(ls, k, marker) == {i \in Followers(ls, k) : HasMarker(ls[i], marker)}

MinOf(S) == CHOOSE x \in S : \A y \in S : x <= y

MaxOf(S) == CHOOSE x \in S : \A y \in S : y <= x

\* the pieces of a text between its newlines; a newline-terminated text of
\* n lines has n + 1 pieces, the last one empty
RECURSIVE Pieces(_)
Pieces(text) ==
    IF \A i \in 1..Len(text) : text[i] # NL THEN <<text>>
    ELSE LET k == MinOf({i \in 1..Len(text) : text[i] = NL})
         IN <<SubSeq(text, 1, k - 1)>> \o Pieces(SubSeq(text, k + 1, Len(text)))

\* the i-th smallest element of a set of numbers
NthOf(S, n) == CHOOSE x \in S : Cardinality({y \in S : y <= x}) = n

(***************************************************************************)
(* C1. parse returns exactly one record per opening line, in the order of  *)
(* the opening lines; every record but the open one is already in the      *)
(* output when the next is opened, and the record open at end of input is  *)
(* appended as well. (An opening line is one whose text, as the parser     *)
(* reads it, starts with "X:".)                                            *)
(***************************************************************************)
C1_OneRecordPerOpening ==
    /\ Len(Records) = Cardinality(Openings(Seen))
    /\ \A k \in 1..Len(Records) :
           LET first == Pieces(Records[k]["content"])[1]
           IN first = Trimmed(Seen[NthOpening(Seen, k)])
    /\ parse_pc = "loop" /\ in_tune
           => Len(tunes) = Cardinality(Openings(Seen)) - 1
    /\ parse_pc = "returned"
           => /\ Seen = lines
              /\ Len(tunes) = Cardinality(Openings(lines))

\* two opening lines, the second record still open at end of input
C1_Witness ==
    /\ parse_pc = "returned"
    /\ Cardinality(Openings(lines)) = 2
    /\ IsOpening(lines[Len(lines) - 1])
    /\ ~IsOpening(lines[Len(lines)]) /\ ~IsBlank(lines[Len(lines)])
    /\ Len(tunes) = 2

(***************************************************************************)
(* C2. An input of one opening line followed by N non-blank lines parses   *)
(* to exactly one record, whose content is N+1 newline-terminated lines:   *)
(* the opening line, then the N following lines in their order (each line  *)
(* compared by its text as the parser reads it; C3 is about whitespace).   *)
(***************************************************************************)
OneOpeningThenNonBlank(ls) ==
    /\ Len(ls) >= 1
    /\ Openings(ls) = {1}
    /\ \A i \in 2..Len(ls) : ~IsBlank(ls[i])

C2_SingleRecordContent ==
    parse_pc = "returned" /\ OneOpeningThenNonBlank(lines)
        => /\ Len(tunes) = 1
           /\ LET ps == Pieces(tunes[1]["content"])
              IN /\ Len(ps) = Len(lines) + 1
                 /\ ps[Len(ps)] = <<>>
                 /\ \A i \in 1..Len(lines) : ps[i] = Trimmed(lines[i])

\* N = 2, the two following lines different
C2_Witness ==
    /\ parse_pc = "returned"
    /\ OneOpeningThenNonBlank(lines)
    /\ Len(lines) = 3
    /\ Trimmed(lines[2]) # Trimmed(lines[3])
    /\ Len(tunes) = 1

(***************************************************************************)
(* C3 (as claimed). Every non-blank line met while a record is open is     *)
(* appended to the content character for character, surrounding whitespace *)
(* included, followed by one newline.                                      *)
(***************************************************************************)
C3_Claimed_Verbatim ==
    [][AppendLine =>
         current_tune'["content"] =
             current_tune["content"] \o lines[line_no] \o <<NL>>]_vars

(***************************************************************************)
(* C3 (amended). Every non-blank line met while a record is open is        *)
(* appended to the content with its leading and trailing whitespace        *)
(* removed, otherwise character for character, followed by one newline,    *)
(* whether or not the line is a recognized field marker.                   *)
(***************************************************************************)
C3_AppendedTrimmed ==
    [][AtLine /\ in_tune /\ ~IsBlank(lines[line_no]) /\ ~IsOpening(lines[line_no])
         => /\ current_tune'["content"] =
                   current_tune["content"] \o Trimmed(lines[line_no]) \o <<NL>>
            /\ tunes' = tunes]_vars

\* a padded line that is no field marker, and a padded field marker line,
\* both appended to the open record
C3_Witness ==
    /\ parse_pc = "returned"
    /\ lines = << <<"X", ":", "1">>, <<" ", "c", ":", "d", " ">>,
                  <<"\t", "K", ":", "G">> >>
    /\ Len(tunes) = 1
    /\ tunes[1]["content"] =
           <<"X", ":", "1", NL, "c", ":", "d", NL, "K", ":", "G", NL>>

(***************************************************************************)
(* C4. Within one record the title is the value of the first "T:" line,    *)
(* rhythm and key are the values of the last "R:" and the last "K:" line;  *)
(* a record without such a line has no such field, whatever marker lines   *)
(* the other records hold.                                                 *)
(***************************************************************************)
FirstWins(rec, key, ls, at) ==
    IF at = {} THEN ~Has(rec, key)
    ELSE Has(rec, key) /\ rec[key] = field_value(Trimmed(ls[MinOf(at)]))

LastWins(rec, key, ls, at) ==
    IF at = {} THEN ~Has(rec, key)
    ELSE Has(rec, key) /\ rec[key] = field_value(Trimmed(ls[MaxOf(at)]))

C4_FirstTitleLastRhythmKey ==
    \A k \in 1..Len(Records) :
        /\ FirstWins(Records[k], "T", Seen, MarkerLines(Seen, k, MarkerT))
        /\ LastWins(Records[k], "R", Seen, MarkerLines(Seen, k, MarkerR))
        /\ LastWins(Records[k], "K", Seen, MarkerLines(Seen, k, MarkerK))

\* a record with two "T:" lines of different values
C4_Witness ==
    /\ parse_pc = "returned"
    /\ \E k \in 1..Len(tunes) :
           LET at == MarkerLines(lines, k, MarkerT)
           IN /\ Cardinality(at) = 2
              /\ field_value(Trimmed(lines[MinOf(at)]))
                     # field_value(Trimmed(lines[MaxOf(at)]))
              /\ tunes[k]["T"] = field_value(Trimmed(lines[MinOf(at)]))

(***************************************************************************)
(* C5 (as claimed). The value of an opening or field marker line is        *)
(* everything after the first colon of the line, trimmed: "T:B:C " gives   *)
(* "B:C".                                                                  *)
(***************************************************************************)
AfterFirstColon(text) ==
    SubSeq(text, MinOf({i \in 1..Len(text) : text[i] = ":"}) + 1, Len(text))

ClaimedValue(raw) == Trimmed(AfterFirstColon(Trimmed(raw)))

C5_Claimed_ValueAfterFirstColon ==
    \A k \in 1..Len(Records) :
        LET t == MarkerLines(Seen, k, MarkerT)
            r == MarkerLines(Seen, k, MarkerR)
            g == MarkerLines(Seen, k, MarkerK)
        IN /\ Records[k]["X"] = ClaimedValue(Seen[NthOpening(Seen, k)])
           /\ t # {} => Records[k]["T"] = ClaimedValue(Seen[MinOf(t)])
           /\ r # {} => Records[k]["R"] = ClaimedValue(Seen[MaxOf(r)])
           /\ g # {} => Records[k]["K"] = ClaimedValue(Seen[MaxOf(g)])

(***************************************************************************)
(* C6. Lines before the first opening line are dropped: while no opening   *)
(* line has been read nothing is recorded, so an input without an opening  *)
(* line parses to the empty sequence; and the result is the one the input  *)
(* gives with the lines before its first opening line removed.             *)
(***************************************************************************)
FromFirstOpening(ls) == SubSeq(ls, MinOf(Openings(ls)), Len(ls))

C6_LeadingLinesDropped ==
    /\ Openings(Seen) = {}
           => tunes = <<>> /\ ~in_tune /\ ~Truthy(current_tune)
    /\ parse_pc = "returned" /\ Openings(lines) # {}
           => tunes = parse_abc_file(FromFirstOpening(lines), book_id)

\* a title line and a body line before the only opening line
C6_Witness ==
    /\ parse_pc = "returned"
    /\ lines = << <<"T", ":", "A">>, <<"a", "b">>, <<"X", ":", "1">> >>
    /\ Len(tunes) = 1
    /\ ~Has(tunes[1], "T")
    /\ tunes[1]["content"] = <<"X", ":", "1", NL>>

(***************************************************************************)
(* C7. Blank (empty or whitespace-only) lines are transparent: at every    *)
(* point the records are those the input read so far gives with its blank  *)
(* lines removed, and no content holds an empty or whitespace-only line.   *)
(***************************************************************************)
NonBlankLines(ls) == SelectSeq(ls, LAMBDA l : ~IsBlank(l))

C7_BlankLinesTransparent ==
    /\ Records = parse_abc_file(NonBlankLines(Seen), book_id)
    /\ \A k \in 1..Len(Records) :
           LET ps == Pieces(Records[k]["content"])
           IN \A i \in 1..(Len(ps) - 1) : ~IsBlank(ps[i])

\* a whitespace-only line inside an open record, followed by a body line
C7_Witness ==
    /\ parse_pc = "returned"
    /\ Len(lines) = 3
    /\ IsOpening(lines[1])
    /\ IsBlank(lines[2]) /\ lines[2] # <<>>
    /\ ~IsBlank(lines[3]) /\ ~IsOpening(lines[3])
    /\ Len(tunes) = 1
    /\ Len(Pieces(tunes[1]["content"])) = 3

(***************************************************************************)
(* Vocabulary of the properties of the store                               *)
(***************************************************************************)
\* the lines of a stored content that follow its opening line and hold the
\* marker
Marked(content, marker) ==
    LET ps == Pieces(content)
    IN {i \in 2..(Len(ps) - 1) : HasMarker(ps[i], marker)}

\* every table there is: the file at the path and a removed file still held
Tables == {disk.inode[i].rows : i \in InodeIds}

\* the rows of a table or view are the given parsed records, in order
RowsMatch(rows, recs) ==
    /\ Len(rows) = Len(recs)
    /\ \A k \in 1..Len(rows) :
           /\ rows[k].book_id = recs[k]["book_id"]
           /\ rows[k].reference_number = recs[k]["X"]
           /\ rows[k].content = recs[k]["content"]
           /\ rows[k].title = IF Has(recs[k], "T") THEN recs[k]["T"] ELSE Unknown
           /\ rows[k].rhythm = IF Has(recs[k], "R") THEN recs[k]["R"] ELSE Unknown
           /\ rows[k].key_sig = IF Has(recs[k], "K") THEN recs[k]["K"] ELSE Unknown

(***************************************************************************)
(* C8. In every stored row and every row of the loaded view, a field whose *)
(* marker line does not occur in the record is "Unknown", and a field      *)
(* whose marker line occurs is the value parsed from that line.            *)
(***************************************************************************)
SentinelOrParsed(row) ==
    LET ps == Pieces(row.content)
        t  == Marked(row.content, MarkerT)
        r  == Marked(row.content, MarkerR)
        g  == Marked(row.content, MarkerK)
    IN /\ row.title = IF t = {} THEN Unknown ELSE field_value(ps[MinOf(t)])
       /\ row.rhythm = IF r = {} THEN Unknown ELSE field_value(ps[MaxOf(r)])
       /\ row.key_sig = IF g = {} THEN Unknown ELSE field_value(ps[MaxOf(g)])

C8_UnknownSentinel ==
    /\ \A rows \in Tables : \A k \in 1..Len(rows) : SentinelOrParsed(rows[k])
    /\ \A k \in 1..Len(df.rows) : SentinelOrParsed(df.rows[k])

\* a loaded row with a rhythm line and neither title nor key line
C8_Witness ==
    /\ df.loaded
    /\ \E k \in 1..Len(df.rows) :
           /\ Marked(df.rows[k].content, MarkerT) = {}
           /\ Marked(df.rows[k].content, MarkerR) # {}
           /\ df.rows[k].title = Unknown
           /\ df.rows[k].rhythm = <<"r">>
           /\ df.rows[k].key_sig = Unknown

(***************************************************************************)
(* C9. Round trip: a store holds exactly the parsed records inserted into  *)
(* it since it was created, in insertion order, and a view loaded from it  *)
(* holds exactly these records, field for field (ids aside).               *)
(***************************************************************************)
C9_RoundTrip ==
    /\ \A i \in InodeIds : RowsMatch(disk.inode[i].rows, inserted[i])
    /\ df.loaded => RowsMatch(df.rows, inserted[analyzer_conn])

\* three records of two files, loaded from the store they were inserted into
C9_Witness ==
    /\ pc = "menu"
    /\ df.loaded
    /\ analyzer_conn = disk.path
    /\ Len(inserted[analyzer_conn]) = 3
    /\ Len(df.rows) = 3
    /\ df.rows[1].book_id # df.rows[3].book_id

(***************************************************************************)
(* C10. In every table the ids are strictly increasing in insertion order  *)
(* (hence pairwise distinct) and start at the first id, 1; the store a     *)
(* rebuild creates holds no row and has assigned no id.                    *)
(***************************************************************************)
IdsIncreasing(rows) ==
    /\ \A a, b \in 1..Len(rows) : a < b => rows[a].id < rows[b].id
    /\ rows # <<>> => rows[1].id = 1

C10_IdsIncreasingRebuildRestarts ==
    /\ [](\A rows \in Tables : IdsIncreasing(rows))
    /\ [][pc = "menu" /\ pc' = "scan"
            => /\ disk'.path # NoFile
               /\ disk'.inode[disk'.path].table
               /\ disk'.inode[disk'.path].rows = <<>>
               /\ disk'.inode[disk'.path].seq = 0]_vars

\* a rebuilt store with rows of its own, next to the rows of the store it
\* replaced (still held by the connection opened before the rebuild)
C10_Witness ==
    /\ pc = "reload"
    /\ analyzer_conn # disk.path
    /\ Len(disk.inode[analyzer_conn].rows) >= 2
    /\ Len(disk.inode[disk.path].rows) >= 2
    /\ disk.inode[disk.path].rows[1].id = 1
    /\ disk.inode[disk.path].rows[2].id = 2

(***************************************************************************)
(* C11. create_table, which every TuneDatabase construction runs too, does *)
(* nothing to a store that has the table: called at any point between      *)
(* inserts it leaves every row and the id assignment as they were, so ids  *)
(* keep increasing; and calling it twice is calling it once.               *)
(***************************************************************************)
C11_CreateTableKeepsRows ==
    /\ [][(CreateTable \/ NewTuneDatabase) /\ os_path_exists(disk)
            => /\ disk'.path = disk.path
               /\ disk'.inode[disk.path].rows = disk.inode[disk.path].rows
               /\ disk'.inode[disk.path].seq = disk.inode[disk.path].seq
               /\ disk'.inode[disk.path].table]_vars
    /\ [](\A i \in InodeIds :
             /\ create_table(create_table(disk.inode[i]))
                    = create_table(disk.inode[i])
             /\ IdsIncreasing(disk.inode[i].rows))

\* create_table has just been called on a store that holds two rows
C11_Witness ==
    /\ last_call.op = "create_table"
    /\ db_conn # NoConn
    /\ Len(disk.inode[db_conn].rows) = 2
    /\ disk.inode[db_conn].seq = 2
    /\ disk.inode[db_conn].rows[2].id = 2

(***************************************************************************)
(* C12. The loaded view is a snapshot: an insert into the store (any step  *)
(* that is not a load) leaves the view as it is, and a load makes the view *)
(* the rows the store holds at that moment, so that later insertions show  *)
(* in the view only once load_data is called again.                        *)
(***************************************************************************)
C12_ViewIsSnapshot ==
    /\ [][CallInsertTune => df' = df]_vars
    /\ [][df' # df => LoadData]_vars
    /\ [][LoadData => /\ df'.loaded
                      /\ df'.rows = disk.inode[analyzer_conn].rows]_vars

\* a view of one row, loaded from the store that has since received two more
C12_Witness ==
    /\ df.loaded
    /\ Len(df.rows) = 1
    /\ analyzer_conn # NoConn
    /\ analyzer_conn = db_conn
    /\ last_call.op = "insert_tune"
    /\ Len(disk.inode[analyzer_conn].rows) = 3
    /\ df.rows[1] = disk.inode[analyzer_conn].rows[1]

(***************************************************************************)
(* Vocabulary of the properties of the filters                             *)
(***************************************************************************)
Filters == {"get_tunes_by_book", "get_tunes_by_rhythm", "search_tunes"}

TextFilters == {"get_tunes_by_rhythm", "search_tunes"}

\* the last call was a filter that returned rows
Answered == last_call.op \in Filters /\ last_call.raised = "none"

\* part is whole with some of its elements left out, the order kept
IsSubSequence(part, whole) ==
    \E at \in [1..Len(part) -> 1..Len(whole)] :
        /\ \A a, b \in 1..Len(part) : a < b => at[a] < at[b]
        /\ \A a \in 1..Len(part) : part[a] = whole[at[a]]

\* the places of the view whose row the result holds
Kept(result, view) == {j \in 1..Len(view) : \E k \in 1..Len(result) : result[k] = view[j]}

(***************************************************************************)
(* C13. No filter changes the view it is given; what a filter returns is   *)
(* the view with some rows left out, in the order of the view; and         *)
(* get_tunes_by_book returns exactly the rows whose book_id is the given   *)
(* one.                                                                    *)
(***************************************************************************)
C13_FiltersSelectInOrder ==
    /\ [][df' = df]_vars
    /\ [](Answered => IsSubSequence(last_call.rows, df.rows))
    /\ [](Answered /\ last_call.op = "get_tunes_by_book"
            => Kept(last_call.rows, df.rows)
                   = {j \in 1..Len(df.rows) : df.rows[j].book_id = last_call.book})

\* book 2 asked of a view whose first and third row are of book 2
C13_Witness ==
    /\ Answered
    /\ last_call.op = "get_tunes_by_book"
    /\ last_call.book = 2
    /\ Len(df.rows) = 3
    /\ df.rows[2].book_id = 1
    /\ last_call.rows = <<df.rows[1], df.rows[3]>>

(***************************************************************************)
(* C14 as the specification states it: on a loaded view each text filter   *)
(* returns exactly the rows whose field (rhythm for get_tunes_by_rhythm,   *)
(* title for search_tunes) is not null and holds the search string as a    *)
(* literal substring, letter case ignored, whatever the search string.     *)
(***************************************************************************)
SameLetter(a, b) == lower(a) = lower(b)

ContainsLiteral(value, s) ==
    \E i \in 0..(Len(value) - Len(s)) :
        \A k \in 1..Len(s) : SameLetter(value[i + k], s[k])

Searched(row, op) == IF op = "get_tunes_by_rhythm" THEN row.rhythm ELSE row.title

C14_Claimed_LiteralSubstring ==
    last_call.op \in TextFilters /\ df.loaded
        => /\ last_call.raised = "none"
           /\ IsSubSequence(last_call.rows, df.rows)
           /\ Kept(last_call.rows, df.rows)
                  = {j \in 1..Len(df.rows) :
                        /\ Searched(df.rows[j], last_call.op) # None
                        /\ ContainsLiteral(Searched(df.rows[j], last_call.op),
                                           last_call.term)}

(***************************************************************************)
(* Vocabulary of the properties of a re-scan                               *)
(***************************************************************************)
\* process_directory has returned (the store is closed, the view not yet
\* reloaded)
ScanComplete == pc = "reload"

\* the records inserted into the store of this re-scan
Ingested == inserted[disk.path]

Said(what, f) == \E p \in printed : p.what = what /\ p.file = f.name

\* the records of f stand in the store, together and in the order of the file
IngestedFrom(f, recs) ==
    \E o \in 0..(Len(Ingested) - Len(recs)) :
        \A k \in 1..Len(recs) : Ingested[o + k] = recs[k]

RECURSIVE TunesOf(_)
TunesOf(files) ==
    IF files = {} THEN 0
    ELSE LET f == CHOOSE g \in files : TRUE
         IN Len(parse_file(f)) + TunesOf(files \ {f})

Numbered(files) == {f \in files : is_int(f.folder)}

(***************************************************************************)
(* C15. When a re-scan is complete, every file whose parent folder name is *)
(* no integer has been reported as skipped and neither parsed nor counted, *)
(* every file under an integer-named folder has been parsed and reported   *)
(* as processed with all its records in the store, and the store holds     *)
(* nothing else, in whatever order the files were enumerated.              *)
(***************************************************************************)
C15_SkippedFilesLeaveTheRest ==
    ScanComplete =>
        /\ \A f \in abc_books \ Numbered(abc_books) :
               /\ Said("Skipping", f)
               /\ ~Said("Processed", f)
               /\ ~Said("Error reading", f)
        /\ \A f \in Numbered(abc_books) :
               /\ ~Said("Skipping", f)
               /\ [what  |-> "Processed", file |-> f.name,
                   tunes |-> Len(parse_file(f))] \in printed
               /\ IngestedFrom(f, parse_file(f))
        /\ Len(Ingested) = TunesOf(Numbered(abc_books))
        /\ total_tunes = Len(Ingested)

\* a re-scan of a file under the folder "abc" and a file of two tunes under
\* the folder "2"
C15_Witness ==
    /\ ScanComplete
    /\ \E f \in abc_books : f.name = "d.abc" /\ ~is_int(f.folder)
    /\ \E f \in abc_books : f.name = "b.abc" /\ is_int(f.folder)
    /\ Len(Ingested) = 2
    /\ \E p \in printed : p.what = "Skipping" /\ p.file = "d.abc"

(***************************************************************************)
(* C16. When a re-scan is complete, every file that could not be read or   *)
(* decoded has been reported with its error and has given no record (it is *)
(* reported as processed with 0 tunes), and every readable file under an   *)
(* integer-named folder has all its records in the store: the failure of   *)
(* one file does not end the run.                                          *)
(***************************************************************************)
C16_UnreadableFileGivesNothing ==
    ScanComplete =>
        /\ \A f \in Numbered(abc_books) :
               IF f.readable
               THEN /\ ~Said("Error reading", f)
                    /\ IngestedFrom(f, parse_abc_file(f.text, int(f.folder)))
               ELSE /\ Said("Error reading", f)
                    /\ [what |-> "Processed", file |-> f.name, tunes |-> 0]
                           \in printed
        /\ \A k \in 1..Len(Ingested) :
               \E f \in Numbered(abc_books) :
                   /\ f.readable
                   /\ \E n \in 1..Len(parse_abc_file(f.text, int(f.folder))) :
                          Ingested[k] = parse_abc_file(f.text, int(f.folder))[n]
        /\ Len(Ingested)
               = TunesOf({f \in Numbered(abc_books) : f.readable})

\* a re-scan of an unreadable file and of a file with one tune
C16_Witness ==
    /\ ScanComplete
    /\ \E f \in abc_books : f.name = "e.abc" /\ ~f.readable
    /\ \E f \in abc_books : f.name = "a.abc" /\ f.readable
    /\ \E p \in printed : p.what = "Error reading" /\ p.file = "e.abc"
    /\ Len(Ingested) = 1
    /\ total_tunes = 1

(***************************************************************************)
(* C17. A failure of the store while the database is created or a tune is  *)
(* inserted is not caught: the exception leaves process_directory and      *)
(* main, the process ends, and after the failing insert no row is added,   *)
(* no file is parsed and no file is reported as processed.                 *)
(***************************************************************************)
C17_StoreFailureEndsRun ==
    /\ [](last_call.raised = "sqlite3.Error"
            => /\ pc = "off"
               /\ db_conn = NoConn
               /\ to_visit = {}
               /\ tunes_found = <<>>)
    /\ [][pc = "insert" /\ last_call'.raised = "sqlite3.Error"
            => /\ disk'.path = disk.path
               /\ disk'.inode[disk.path].rows = disk.inode[disk.path].rows
               /\ printed' = printed]_vars
    /\ [][pc = "menu" /\ last_call'.raised = "sqlite3.Error"
            => /\ pc' = "off"
               /\ \A i \in InodeIds : disk'.inode[i].rows = <<>>]_vars

\* the second insert of a file of two tunes has failed: one row is stored,
\* the file is not reported as processed
C17_Witness ==
    /\ pc = "off"
    /\ last_call.op = "insert_tune"
    /\ last_call.raised = "sqlite3.Error"
    /\ disk.path # NoFile
    /\ Len(disk.inode[disk.path].rows) = 1
    /\ Cardinality(abc_books) = 2
    /\ TunesOf(Numbered(abc_books)) = 3
    /\ \A p \in printed : p.what # "Processed"

(***************************************************************************)
(* C18 as the specification states it: a filter applied to the frame       *)
(* before any load, or to a view without rows, returns no row and raises   *)
(* nothing. Stated here for get_tunes_by_book and for the search strings   *)
(* that are well-formed patterns, to leave aside what C14 is about.        *)
(***************************************************************************)
C18_Claimed_EmptyViewNeverRaises ==
    /\ last_call.op \in Filters
    /\ empty(df)
    /\ ~re_error(last_call.term)
    => /\ last_call.raised = "none"
       /\ last_call.rows = <<>>

(***************************************************************************)
(* C18. A filter applied to a loaded view without rows returns no row; it  *)
(* raises nothing, except that a text filter raises re.error for a search  *)
(* string that is no well-formed pattern. A filter applied to the frame    *)
(* before any load, which has no columns, raises KeyError.                 *)
(***************************************************************************)
C18_EmptyLoadedViewGivesNothing ==
    last_call.op \in Filters =>
        /\ ~df.loaded =>
               /\ last_call.raised = "KeyError"
               /\ last_call.rows = <<>>
        /\ df.loaded /\ empty(df) =>
               /\ last_call.rows = <<>>
               /\ last_call.raised
                      = IF last_call.op \in TextFilters /\ re_error(last_call.term)
                        THEN "re.error" ELSE "none"

\* get_tunes_by_book has been called on the frame before any load
C18_Witness ==
    /\ ~df.loaded
    /\ last_call.op = "get_tunes_by_book"
    /\ last_call.book = 1
    /\ last_call.raised = "KeyError"

(***************************************************************************)
(* C19 as the specification states it: the reload that ends a re-scan      *)
(* succeeds and gives the view exactly the rows of the store the re-scan   *)
(* has built, as many as the re-scan reports as imported, whatever         *)
(* happened before.                                                        *)
(***************************************************************************)
C19_Claimed_ReloadShowsNewStore ==
    [][pc = "reload"
         => /\ pc' = "menu"
            /\ df'.loaded
            /\ df'.rows = disk.inode[disk.path].rows
            /\ Len(df'.rows) = total_tunes]_vars

(***************************************************************************)
(* Vocabulary of the properties of marker recognition                      *)
(***************************************************************************)
\* the line as it stands in the input starts with the marker
RawPrefix(raw, marker) ==
    Len(raw) >= 2 /\ raw[1] = marker[1] /\ raw[2] = marker[2]

FieldKeys == {"T", "R", "K"}

MarkerOf(key) ==
    IF key = "T" THEN MarkerT ELSE IF key = "R" THEN MarkerR ELSE MarkerK

\* the records begun: those in the output and the open one
Begun(ts, cur) == Len(ts) + (IF DOMAIN cur = {} THEN 0 ELSE 1)

\* this step of the loop opens a record
Opens == Begun(tunes', current_tune') = Begun(tunes, current_tune) + 1

\* this step of the loop gives the field of the open record a value
SetsField(key) ==
    /\ Has(current_tune', key)
    /\ ~Has(current_tune, key) \/ current_tune'[key] # current_tune[key]

(***************************************************************************)
(* C20 as the specification states it: a line opens a record or sets a     *)
(* field only if the line as it stands in the input starts with the        *)
(* two-character prefix; a prefix preceded by whitespace does neither.     *)
(***************************************************************************)
C20_Claimed_PrefixAtLineStart ==
    [][AtLine =>
         /\ Opens => RawPrefix(lines[line_no], MarkerX)
         /\ \A key \in FieldKeys :
                SetsField(key) => RawPrefix(lines[line_no], MarkerOf(key))]_vars

(***************************************************************************)
(* C20. A line opens a record or sets a field only if its text, once the   *)
(* leading and trailing whitespace is removed, starts with the             *)
(* two-character prefix; every such "X:" line opens a record, and inside   *)
(* an open record every such "R:" or "K:" line sets its field, and such a  *)
(* "T:" line sets the title when none is set. Whitespace before the prefix *)
(* changes nothing of this.                                                *)
(***************************************************************************)
C20_PrefixAfterTrimming ==
    [][AtLine =>
         /\ Opens <=> HasMarker(lines[line_no], MarkerX)
         /\ \A key \in FieldKeys :
                /\ SetsField(key) => /\ HasMarker(lines[line_no], MarkerOf(key))
                                     /\ in_tune
                /\ /\ in_tune
                   /\ HasMarker(lines[line_no], MarkerOf(key))
                   /\ key = "T" => ~Has(current_tune, "T")
                   => /\ Has(current_tune', key)
                      /\ current_tune'[key]
                             = field_value(Trimmed(lines[line_no]))]_vars

\* " X: 2" has opened the second record and "\tK:G" has set its key
C20_Witness ==
    /\ parse_pc = "returned"
    /\ lines = << <<"X", ":", "1">>, <<" ", "X", ":", " ", "2">>,
                  <<"\t", "K", ":", "G">> >>
    /\ Len(tunes) = 2
    /\ tunes[2]["X"] = <<"2">>
    /\ Has(tunes[2], "K")
    /\ tunes[2]["K"] = <<"G">>
    /\ ~Has(tunes[1], "K")

====
